---------------------------- MODULE Spec2Model ----------------------------
(***************************************************************************)
(* A model of ai_coder.py: the structural chunker (AICoder.chunk_code),    *)
(* the rewrite orchestrator (AICoder.get_code_changes), the local and      *)
(* remote workflows (update_file, update_github_file) and the reference    *)
(* dispatch of main with GitHubAdapter.parse_github_path.                  *)
(*                                                                         *)
(* Representation of Python strings.                                       *)
(*   A line is a sequence of one-character strings without a newline.      *)
(*   A text (a str that may hold newlines) is the NON-EMPTY sequence of    *)
(*   the pieces between its newline characters, i.e. text.split('\n'):     *)
(*       ""        is  << <<>> >>                                          *)
(*       "a\n"     is  << <<"a">>, <<>> >>                                 *)
(*       "a\nb"    is  << <<"a">>, <<"b">> >>                              *)
(*   In this representation '\n'.join of texts is concatenation of the     *)
(*   sequences, and str.splitlines() drops one trailing empty piece.       *)
(***************************************************************************)
EXTENDS Integers, Sequences, FiniteSets, TLC

VARIABLES
    \* ---- AICoder.chunk_code, one loop iteration per step ----
    code,            \* argument code (a text)
    max_lines,       \* argument max_lines
    lines,           \* lines = code.splitlines()
    idx,             \* position of the for loop in lines (1-based, next line)
    chunks,          \* chunks: sequence of [text, complete]
    current_chunk,   \* current_chunk: list of lines
    current_indent,  \* current_indent
    in_block,        \* in_block
    line_count,      \* line_count
    cpc              \* "start" | "loop" | "done"

VARIABLES
    \* ---- main, update_file, update_github_file, get_code_changes ----
    file_path,        \* sys.argv[1], a sequence of characters
    workflow,         \* "none" | "local" | "github": the branch main takes
    ppc,              \* the statement the invocation is at
    parsed,           \* result of parse_github_path
    disk,             \* content of the target file on disk (a text)
    original_code,    \* original_code, NoText until read
    chunk_list,       \* chunks of get_code_changes
    i,                \* 1-based number of the chunk being processed
    modified_chunks,  \* modified_chunks
    modified_code,    \* modified_code, NoText until get_code_changes returns
    calls,            \* history: the engine calls issued, in order
    trace,            \* history: the workflow steps started, in order
    failed,           \* history: the step that raised, "none" if none did
    writes,           \* history: number of write_file calls
    publishes,        \* history: number of create_pull_request calls
    pr_url,           \* value returned by update_github_file
    exit_code         \* exit code of the process, -1 while it runs

chunkVars == <<code, max_lines, lines, idx, chunks, current_chunk,
               current_indent, in_block, line_count, cpc>>

progVars == <<file_path, workflow, ppc, parsed, disk, original_code,
              chunk_list, i, modified_chunks, modified_code, calls, trace,
              failed, writes, publishes, pr_url, exit_code>>

vars == <<chunkVars, progVars>>

-----------------------------------------------------------------------------
(* Bounds of the model *)

\* pieces of a text (text.split('\n')) in the chunker specification
MaxLen == 4
\* largest indentation (number of leading blanks) of a generated line
MaxIndent == 1
\* largest max_lines argument
MaxMaxLines == 2
\* lines of a document, and its largest indentation, in the specification of
\* consistently indented documents
StructLen == 5
StructIndent == 2
\* pieces of the file content in the workflow specifications
RewriteLen == 3
\* characters of a generated reference
MaxRefLen == 7

-----------------------------------------------------------------------------
(* Strings *)

Front(s) == SubSeq(s, 1, Len(s) - 1)

Last(s) == s[Len(s)]

\* the empty text ""
EmptyText == << <<>> >>

\* n blanks
Spaces(n) == [k \in 1..n |-> " "]

\* str.isspace of one character
IsSpace(c) == c = " "

\* number of leading whitespace characters of a line
RECURSIVE LeadingSpaces(_)
LeadingSpaces(line) ==
    IF line = <<>> THEN 0
    ELSE IF IsSpace(Head(line)) THEN 1 + LeadingSpaces(Tail(line))
    ELSE 0

\* number of trailing whitespace characters of a line
RECURSIVE TrailingSpaces(_)
TrailingSpaces(line) ==
    IF line = <<>> THEN 0
    ELSE IF IsSpace(line[Len(line)])
         THEN 1 + TrailingSpaces(SubSeq(line, 1, Len(line) - 1))
    ELSE 0

\* line.lstrip()
LStrip(line) == SubSeq(line, LeadingSpaces(line) + 1, Len(line))

\* line.rstrip()
RStrip(line) == SubSeq(line, 1, Len(line) - TrailingSpaces(line))

\* stripped.endswith(':')
EndsWithColon(stripped) == stripped # <<>> /\ stripped[Len(stripped)] = ":"

\* code.splitlines(): the pieces, without the empty piece after a final
\* newline ('\n' is the only line boundary of the modelled alphabet)
SplitLines(text) ==
    IF text[Len(text)] = <<>> THEN SubSeq(text, 1, Len(text) - 1) ELSE text

\* '\n'.join(list of lines), as a text
JoinLines(ls) == IF ls = <<>> THEN EmptyText ELSE ls

\* '\n'.join(list of texts), as a text
RECURSIVE JoinTexts(_)
JoinTexts(ts) ==
    IF ts = <<>> THEN EmptyText
    ELSE IF Len(ts) = 1 THEN ts[1]
    ELSE ts[1] \o JoinTexts(Tail(ts))

\* text.lstrip(): leading blanks and newlines removed
RECURSIVE LStripText(_)
LStripText(text) ==
    IF LStrip(text[1]) = <<>> /\ Len(text) > 1 THEN LStripText(Tail(text))
    ELSE <<LStrip(text[1])>> \o Tail(text)

\* text.rstrip(): trailing blanks and newlines removed
RECURSIVE RStripText(_)
RStripText(text) ==
    LET n == Len(text) IN
    IF RStrip(text[n]) = <<>> /\ n > 1 THEN RStripText(SubSeq(text, 1, n - 1))
    ELSE SubSeq(text, 1, n - 1) \o <<RStrip(text[n])>>

\* text.strip()
Strip(text) == RStripText(LStripText(text))

-----------------------------------------------------------------------------
(* References: main and GitHubAdapter.parse_github_path *)

\* 'https://github.com/' (lines 41 and 356)
UrlPrefix ==
    <<"h", "t", "t", "p", "s", ":", "/", "/", "g", "i", "t", "h", "u",
      "b", ".", "c", "o", "m", "/">>

\* 'blob/' of url_pattern (line 41)
BlobPart == <<"b", "l", "o", "b", "/">>

\* str.startswith
StartsWith(s, p) == Len(s) >= Len(p) /\ SubSeq(s, 1, Len(p)) = p

\* c in s
Contains(s, c) == \E k \in 1..Len(s) : s[k] = c

\* index of the first c in s at or after position from, 0 if there is none
NextIndex(s, c, from) ==
    IF \E k \in from..Len(s) : s[k] = c
    THEN CHOOSE k \in from..Len(s) :
            s[k] = c /\ \A j \in from..(k - 1) : s[j] # c
    ELSE 0

NoMatch ==
    [ok |-> FALSE, form |-> "invalid", owner |-> <<>>, repo |-> <<>>,
     branch |-> <<>>, path |-> <<>>]

\* re.match(url_pattern, github_path), line 41-42:
\*   https://github\.com/([^/]+)/([^/]+)/blob/([^/]+)/(.+)$
\* Each [^/]+ is the non-empty run of characters up to the next '/'.
MatchUrl(s) ==
    IF ~StartsWith(s, UrlPrefix) THEN NoMatch
    ELSE
      LET a  == Len(UrlPrefix) + 1
          s1 == NextIndex(s, "/", a)
          s2 == NextIndex(s, "/", s1 + 1)
          b  == s2 + 1
          s3 == NextIndex(s, "/", b + Len(BlobPart))
      IN IF /\ s1 > a
            /\ s2 > s1 + 1
            /\ b + Len(BlobPart) - 1 <= Len(s)
            /\ SubSeq(s, b, b + Len(BlobPart) - 1) = BlobPart
            /\ s3 > b + Len(BlobPart)
            /\ s3 < Len(s)
         THEN [ok |-> TRUE, form |-> "url",
               owner |-> SubSeq(s, a, s1 - 1),
               repo |-> SubSeq(s, s1 + 1, s2 - 1),
               branch |-> SubSeq(s, b + Len(BlobPart), s3 - 1),
               path |-> SubSeq(s, s3 + 1, Len(s))]
         ELSE NoMatch

\* re.match(short_pattern, github_path), line 48-49:
\*   ^([^/]+)/([^/]+)/([^:]+):(.+)$
\* The branch is the non-empty run of characters up to the next ':'.
MatchShort(s) ==
    LET s1 == NextIndex(s, "/", 1)
        s2 == NextIndex(s, "/", s1 + 1)
        c  == NextIndex(s, ":", s2 + 1)
    IN IF s1 > 1 /\ s2 > s1 + 1 /\ c > s2 + 1 /\ c < Len(s)
       THEN [ok |-> TRUE, form |-> "short",
             owner |-> SubSeq(s, 1, s1 - 1),
             repo |-> SubSeq(s, s1 + 1, s2 - 1),
             branch |-> SubSeq(s, s2 + 1, c - 1),
             path |-> SubSeq(s, c + 1, Len(s))]
       ELSE NoMatch

\* parse_github_path (lines 32-59); ok = FALSE stands for the ValueError
ParseGithubPath(github_path) ==
    IF MatchUrl(github_path).ok THEN MatchUrl(github_path)
    ELSE MatchShort(github_path)

\* line 356: the test main applies to sys.argv[1]
IsGithubPath(path) ==
    \/ StartsWith(path, UrlPrefix)
    \/ (Contains(path, "/") /\ Contains(path, ":"))

-----------------------------------------------------------------------------
(* AICoder.chunk_code *)

\* mutant of FitsInOneChunk: an off-by-one comparison
FitsInOneChunkStrict(ls, max) == Len(ls) < max

\* line 155: the document is short enough to be returned whole
FitsInOneChunk(ls, max) == Len(ls) <= max

\* line 166: "not stripped", an empty or whitespace-only line
IsBlank(line) == LStrip(line) = <<>>

\* line 171: indent = len(line) - len(stripped)
Indent(line) == Len(line) - Len(LStrip(line))

\* mutant of ShouldCut: the open-block flag is not consulted
ShouldCutMidBlock(count, max, inblock, indent, cur_indent) ==
    count >= max /\ indent <= cur_indent

\* line 174: the cut condition (line 175 adds "if current_chunk")
ShouldCut(count, max, inblock, indent, cur_indent) ==
    count >= max /\ ~inblock /\ indent <= cur_indent

\* line 182: the line starts a block
IsOpener(line) == EndsWithColon(LStrip(line))

\* line 185: the line ends the open block
ClosesBlock(line, inblock, cur_indent) ==
    Indent(line) <= cur_indent /\ inblock

\* mutant of FinalFlag: the last chunk is flagged like the others
FinalFlagAlways(inblock) == TRUE

\* line 195: flag of the last chunk
FinalFlag(inblock) == ~inblock

\* the state of the loop before its first iteration (lines 158-162)
LoopInit ==
    [chunks |-> <<>>, current_chunk |-> <<>>, current_indent |-> 0,
     in_block |-> FALSE, line_count |-> 0]

\* one iteration of the for loop (lines 164-190) on loop state s
LoopStep(s, line, max) ==
    IF IsBlank(line)
    THEN [s EXCEPT !.current_chunk = Append(@, line)]
    ELSE
      LET indent == Indent(line)
          cut == /\ ShouldCut(s.line_count, max, s.in_block, indent,
                              s.current_indent)
                 /\ s.current_chunk # <<>>
          s1 == IF cut
                THEN [s EXCEPT
                        !.chunks = Append(@, [text |-> JoinLines(s.current_chunk),
                                              complete |-> TRUE]),
                        !.current_chunk = <<>>,
                        !.line_count = 0]
                ELSE s
          s2 == IF IsOpener(line)
                THEN [s1 EXCEPT !.in_block = TRUE, !.current_indent = indent]
                ELSE IF ClosesBlock(line, s1.in_block, s1.current_indent)
                THEN [s1 EXCEPT !.in_block = FALSE, !.current_indent = indent]
                ELSE s1
      IN [s2 EXCEPT !.current_chunk = Append(@, line),
                    !.line_count = @ + 1]

\* lines 192-195: the last chunk
LoopFinish(s) ==
    IF s.current_chunk # <<>>
    THEN Append(s.chunks, [text |-> JoinLines(s.current_chunk),
                           complete |-> FinalFlag(s.in_block)])
    ELSE s.chunks

RECURSIVE LoopFrom(_, _, _)
LoopFrom(s, ls, max) ==
    IF ls = <<>> THEN s ELSE LoopFrom(LoopStep(s, Head(ls), max), Tail(ls), max)

\* chunk_code(code, max_lines) as a function of its arguments
ChunkCode(text, max) ==
    LET ls == SplitLines(text) IN
    IF FitsInOneChunk(ls, max)
    THEN << [text |-> text, complete |-> TRUE] >>
    ELSE LoopFinish(LoopFrom(LoopInit, ls, max))

-----------------------------------------------------------------------------
(* Inputs of the chunker specification *)

\* what follows the indentation of a generated line
Bodies == { <<>>, <<"a">>, <<"a", ":">> }

LineSet == { Spaces(n) \o b : n \in 0..MaxIndent, b \in Bodies }

\* every text of at most n pieces over the line set L
TextsOver(L, n) == UNION { [1..k -> L] : k \in 1..n }

LoopState ==
    [chunks |-> chunks, current_chunk |-> current_chunk,
     current_indent |-> current_indent, in_block |-> in_block,
     line_count |-> line_count]

SetLoopState(s) ==
    /\ chunks' = s.chunks
    /\ current_chunk' = s.current_chunk
    /\ current_indent' = s.current_indent
    /\ in_block' = s.in_block
    /\ line_count' = s.line_count

\* a text variable that has no value yet
NoText == <<>>

\* the invocation-level variables before anything has run
ProgIdle(path, content) ==
    /\ file_path = path
    /\ disk = content
    /\ workflow = "none"
    /\ parsed = NoMatch
    /\ original_code = NoText
    /\ chunk_list = <<>>
    /\ i = 1
    /\ modified_chunks = <<>>
    /\ modified_code = NoText
    /\ calls = <<>>
    /\ trace = <<>>
    /\ failed = "none"
    /\ writes = 0
    /\ publishes = 0
    /\ pr_url = "none"
    /\ exit_code = -1

InitChunkWith(texts) ==
    /\ ProgIdle(<<>>, EmptyText)
    /\ ppc = "idle"
    /\ code \in texts
    /\ max_lines \in 1..MaxMaxLines
    /\ lines = <<>>
    /\ idx = 1
    /\ chunks = <<>>
    /\ current_chunk = <<>>
    /\ current_indent = 0
    /\ in_block = FALSE
    /\ line_count = 0
    /\ cpc = "start"

InitChunk == InitChunkWith(TextsOver(LineSet, MaxLen))

\* lines 154-156: the early return
ChunkReturnWhole ==
    /\ cpc = "start"
    /\ FitsInOneChunk(SplitLines(code), max_lines)
    /\ lines' = SplitLines(code)
    /\ chunks' = << [text |-> code, complete |-> TRUE] >>
    /\ cpc' = "done"
    /\ UNCHANGED <<code, max_lines, idx, current_chunk, current_indent,
                   in_block, line_count>>
    /\ UNCHANGED progVars

\* lines 154-162: the loop is entered
ChunkEnterLoop ==
    /\ cpc = "start"
    /\ ~FitsInOneChunk(SplitLines(code), max_lines)
    /\ lines' = SplitLines(code)
    /\ idx' = 1
    /\ SetLoopState(LoopInit)
    /\ cpc' = "loop"
    /\ UNCHANGED <<code, max_lines>>
    /\ UNCHANGED progVars

\* lines 164-190: one iteration
ChunkLine ==
    /\ cpc = "loop"
    /\ idx <= Len(lines)
    /\ SetLoopState(LoopStep(LoopState, lines[idx], max_lines))
    /\ idx' = idx + 1
    /\ UNCHANGED <<code, max_lines, lines, cpc>>
    /\ UNCHANGED progVars

\* lines 192-198: the last chunk and the return
ChunkFinish ==
    /\ cpc = "loop"
    /\ idx > Len(lines)
    /\ chunks' = LoopFinish(LoopState)
    /\ cpc' = "done"
    /\ UNCHANGED <<code, max_lines, lines, idx, current_chunk, current_indent,
                   in_block, line_count>>
    /\ UNCHANGED progVars

NextChunk ==
    \/ ChunkReturnWhole
    \/ ChunkEnterLoop
    \/ ChunkLine
    \/ ChunkFinish

SpecChunk == InitChunk /\ [][NextChunk]_vars


-----------------------------------------------------------------------------
(* The change engine *)

\* a replacement text the engine may return: " b\n"
Replacement == << <<" ", "b">>, <<>> >>

\* the contents the engine may return for the request text req
Responses(req) == { req, EmptyText, Replacement }

\* What self.client.chat.completions.create and the read of its result can
\* do (lines 212-237 and 242-264):
\*   "raise"      create raises (timeout, rate limit, connection error)
\*   "nocontent"  the response holds no choice or no content, so
\*                response.choices[0].message.content.strip() raises
\*   "content"    the content is the text resp
Outcomes(req) ==
    { [kind |-> "raise", resp |-> NoText],
      [kind |-> "nocontent", resp |-> NoText] }
    \cup { [kind |-> "content", resp |-> t] : t \in Responses(req) }

-----------------------------------------------------------------------------
(* main, update_file, update_github_file, get_code_changes *)

\* mutant of OnError: the handler logs the error and does not exit
OnErrorLogOnly(step) ==
    /\ failed' = step
    /\ ppc' = "exit"
    /\ exit_code' = 0

\* The handlers of lines 294-296 and 333-335 (log, sys.exit(1)); the
\* ValueError of line 280 is raised outside the try block and ends the
\* process with the interpreter's exit status 1.
OnError(step) ==
    /\ failed' = step
    /\ ppc' = "exit"
    /\ exit_code' = 1

\* mutant of MergeChunks: the results are joined last first
MergeChunksReversed(results) ==
    JoinTexts([k \in 1..Len(results) |-> results[Len(results) + 1 - k]])

\* line 239: '\n'.join(modified_chunks)
MergeChunks(results) == JoinTexts(results)

\* lines 348-361: the dispatch on sys.argv[1] (the AICoder constructor of
\* line 353 is taken to find both credentials)
Main ==
    /\ ppc = "main"
    /\ workflow' = IF IsGithubPath(file_path) THEN "github" ELSE "local"
    /\ ppc' = IF IsGithubPath(file_path) THEN "parse" ELSE "exists"
    /\ UNCHANGED <<file_path, parsed, disk, original_code, chunk_list, i,
                   modified_chunks, modified_code, calls, trace, failed,
                   writes, publishes, pr_url, exit_code>>
    /\ UNCHANGED chunkVars

\* line 304: parse_github_path
Parse ==
    /\ ppc = "parse"
    /\ trace' = Append(trace, "parse")
    /\ parsed' = ParseGithubPath(file_path)
    /\ IF ParseGithubPath(file_path).ok
       THEN ppc' = "clone" /\ UNCHANGED <<failed, exit_code>>
       ELSE OnError("parse")
    /\ UNCHANGED <<file_path, workflow, disk, original_code, chunk_list, i,
                   modified_chunks, modified_code, calls, writes, publishes,
                   pr_url>>
    /\ UNCHANGED chunkVars

\* line 308, lines 61-73: clone_repo returns
CloneOk ==
    /\ ppc = "clone"
    /\ trace' = Append(trace, "clone")
    /\ ppc' = "exists"
    /\ UNCHANGED <<file_path, workflow, parsed, disk, original_code,
                   chunk_list, i, modified_chunks, modified_code, calls,
                   failed, writes, publishes, pr_url, exit_code>>
    /\ UNCHANGED chunkVars

\* line 308, lines 71-73: clone or checkout raises
CloneFail ==
    /\ ppc = "clone"
    /\ trace' = Append(trace, "clone")
    /\ OnError("clone")
    /\ UNCHANGED <<file_path, workflow, parsed, disk, original_code,
                   chunk_list, i, modified_chunks, modified_code, calls,
                   writes, publishes, pr_url>>
    /\ UNCHANGED chunkVars

\* lines 278 and 313: the file exists
ExistsOk ==
    /\ ppc = "exists"
    /\ trace' = Append(trace, "exists")
    /\ ppc' = "read"
    /\ UNCHANGED <<file_path, workflow, parsed, disk, original_code,
                   chunk_list, i, modified_chunks, modified_code, calls,
                   failed, writes, publishes, pr_url, exit_code>>
    /\ UNCHANGED chunkVars

\* lines 278-280 and 313-315: the file does not exist
ExistsFail ==
    /\ ppc = "exists"
    /\ trace' = Append(trace, "exists")
    /\ OnError("exists")
    /\ UNCHANGED <<file_path, workflow, parsed, disk, original_code,
                   chunk_list, i, modified_chunks, modified_code, calls,
                   writes, publishes, pr_url>>
    /\ UNCHANGED chunkVars

\* lines 284 and 318, lines 125-132: read_file returns the content
ReadOk ==
    /\ ppc = "read"
    /\ trace' = Append(trace, "read")
    /\ original_code' = disk
    /\ ppc' = "rewrite"
    /\ UNCHANGED <<file_path, workflow, parsed, disk, chunk_list, i,
                   modified_chunks, modified_code, calls, failed, writes,
                   publishes, pr_url, exit_code>>
    /\ UNCHANGED chunkVars

\* lines 133-135: read_file raises
ReadFail ==
    /\ ppc = "read"
    /\ trace' = Append(trace, "read")
    /\ OnError("read")
    /\ UNCHANGED <<file_path, workflow, parsed, disk, original_code,
                   chunk_list, i, modified_chunks, modified_code, calls,
                   writes, publishes, pr_url>>
    /\ UNCHANGED chunkVars

\* lines 288 and 321, lines 206-210: get_code_changes chunks the code; the
\* default max_lines of line 148 is scaled down to the variable max_lines
GetCodeChanges ==
    /\ ppc = "rewrite"
    /\ trace' = Append(trace, "rewrite")
    /\ chunk_list' = ChunkCode(original_code, max_lines)
    /\ i' = 1
    /\ modified_chunks' = <<>>
    /\ ppc' = "engine"
    /\ UNCHANGED <<file_path, workflow, parsed, disk, original_code,
                   modified_code, calls, failed, writes, publishes, pr_url,
                   exit_code>>
    /\ UNCHANGED chunkVars

\* the text sent with the next request: the chunk (line 227) when there are
\* several chunks, the whole code (line 255) when there is one
RequestText ==
    IF Len(chunk_list) > 1 THEN chunk_list[i].text ELSE original_code

\* lines 212-239 and 242-264: one engine call that returns a content
EngineReturns ==
    /\ ppc = "engine"
    /\ \E o \in Outcomes(RequestText) :
          /\ o.kind = "content"
          /\ calls' = Append(calls, [seg |-> i, text |-> RequestText,
                                     kind |-> o.kind, resp |-> o.resp])
          /\ IF Len(chunk_list) > 1
             THEN /\ modified_chunks' = Append(modified_chunks, Strip(o.resp))
                  /\ IF i < Len(chunk_list)
                     THEN /\ i' = i + 1
                          /\ UNCHANGED <<modified_code, ppc>>
                     ELSE /\ modified_code' = MergeChunks(modified_chunks')
                          /\ ppc' = "write"
                          /\ UNCHANGED i
             ELSE /\ modified_code' = Strip(o.resp)
                  /\ ppc' = "write"
                  /\ UNCHANGED <<i, modified_chunks>>
    /\ UNCHANGED <<file_path, workflow, parsed, disk, original_code,
                   chunk_list, trace, failed, writes, publishes, pr_url,
                   exit_code>>
    /\ UNCHANGED chunkVars

\* lines 266-268, then 294-296 or 333-335: one engine call that raises
EngineRaises ==
    /\ ppc = "engine"
    /\ \E o \in Outcomes(RequestText) :
          /\ o.kind # "content"
          /\ calls' = Append(calls, [seg |-> i, text |-> RequestText,
                                     kind |-> o.kind, resp |-> o.resp])
    /\ OnError("rewrite")
    /\ UNCHANGED <<file_path, workflow, parsed, disk, original_code,
                   chunk_list, i, modified_chunks, modified_code, trace,
                   writes, publishes, pr_url>>
    /\ UNCHANGED chunkVars

\* lines 292 and 324, lines 137-143: write_file writes modified_code; the
\* local workflow then returns to main, which ends with exit status 0
WriteOk ==
    /\ ppc = "write"
    /\ trace' = Append(trace, "write")
    /\ writes' = writes + 1
    /\ disk' = modified_code
    /\ IF workflow = "github"
       THEN ppc' = "publish" /\ UNCHANGED exit_code
       ELSE ppc' = "exit" /\ exit_code' = 0
    /\ UNCHANGED <<file_path, workflow, parsed, original_code, chunk_list, i,
                   modified_chunks, modified_code, calls, failed, publishes,
                   pr_url>>
    /\ UNCHANGED chunkVars

\* lines 144-146: write_file raises, before or after open() truncated the file
WriteFail ==
    /\ ppc = "write"
    /\ trace' = Append(trace, "write")
    /\ writes' = writes + 1
    /\ disk' \in {disk, EmptyText}
    /\ OnError("write")
    /\ UNCHANGED <<file_path, workflow, parsed, original_code, chunk_list, i,
                   modified_chunks, modified_code, calls, publishes, pr_url>>
    /\ UNCHANGED chunkVars

\* lines 328-332, lines 75-103: create_pull_request returns the PR's
\* html_url, which update_github_file returns; main ends with exit status 0
PublishOk ==
    /\ ppc = "publish"
    /\ trace' = Append(trace, "publish")
    /\ publishes' = publishes + 1
    /\ pr_url' = "html_url"
    /\ ppc' = "exit"
    /\ exit_code' = 0
    /\ UNCHANGED <<file_path, workflow, parsed, disk, original_code,
                   chunk_list, i, modified_chunks, modified_code, calls,
                   failed, writes>>
    /\ UNCHANGED chunkVars

\* lines 104-106: create_pull_request raises
PublishFail ==
    /\ ppc = "publish"
    /\ trace' = Append(trace, "publish")
    /\ publishes' = publishes + 1
    /\ OnError("publish")
    /\ UNCHANGED <<file_path, workflow, parsed, disk, original_code,
                   chunk_list, i, modified_chunks, modified_code, calls,
                   writes, pr_url>>
    /\ UNCHANGED chunkVars

Next ==
    \/ Main
    \/ Parse
    \/ CloneOk
    \/ CloneFail
    \/ ExistsOk
    \/ ExistsFail
    \/ ReadOk
    \/ ReadFail
    \/ GetCodeChanges
    \/ EngineReturns
    \/ EngineRaises
    \/ WriteOk
    \/ WriteFail
    \/ PublishOk
    \/ PublishFail

-----------------------------------------------------------------------------
(* Inputs of the workflow specifications *)

\* './a/b.py'
LocalExample ==
    <<".", "/", "a", "/", "b", ".", "p", "y">>

\* 'acme/widget/main:src/app.py'
ShortExample ==
    <<"a", "c", "m", "e", "/", "w", "i", "d", "g", "e", "t", "/", "m",
      "a", "i", "n", ":", "s", "r", "c", "/", "a", "p", "p", ".", "p",
      "y">>

\* 'https://github.com/acme/widget/blob/main/src/app.py'
UrlExample ==
    <<"h", "t", "t", "p", "s", ":", "/", "/", "g", "i", "t", "h", "u",
      "b", ".", "c", "o", "m", "/", "a", "c", "m", "e", "/", "w", "i",
      "d", "g", "e", "t", "/", "b", "l", "o", "b", "/", "m", "a", "i",
      "n", "/", "s", "r", "c", "/", "a", "p", "p", ".", "p", "y">>

\* 'acme/widget:app.py': dispatched to the remote workflow, refused by the
\* parser
BadRemoteExample ==
    <<"a", "c", "m", "e", "/", "w", "i", "d", "g", "e", "t", ":", "a",
      "p", "p", ".", "p", "y">>

\* every string of 1..n characters over the alphabet A
StringsOver(A, n) == UNION { [1..k -> A] : k \in 1..n }

\* the parts of a generated URL reference
UrlWords == { <<>>, <<"a">> }

UrlMiddles == { BlobPart, <<"t", "r", "e", "e", "/">> }

UrlRefs ==
    { UrlPrefix \o o \o <<"/">> \o r \o <<"/">> \o m \o b \o <<"/">> \o f :
        o \in UrlWords, r \in UrlWords, m \in UrlMiddles, b \in UrlWords,
        f \in UrlWords }

RefSet ==
    StringsOver({"a", "/", ":"}, MaxRefLen)
    \cup UrlRefs
    \cup { LocalExample, ShortExample, UrlExample, BadRemoteExample }

\* the lines of the file contents of the workflow specifications
RewriteLineSet == { <<>>, <<"a">>, <<" ", "a">>, <<"a", ":">> }

LoopIdle ==
    /\ code = EmptyText
    /\ lines = <<>>
    /\ idx = 1
    /\ chunks = <<>>
    /\ current_chunk = <<>>
    /\ current_indent = 0
    /\ in_block = FALSE
    /\ line_count = 0
    /\ cpc = "idle"

InitProgramWith(refs, texts) ==
    /\ \E r \in refs, t \in texts : ProgIdle(r, t)
    /\ ppc = "main"
    /\ max_lines \in 1..MaxMaxLines
    /\ LoopIdle

\* the workflows on every small file content, for one reference of each kind
InitRewrite ==
    InitProgramWith({LocalExample, ShortExample, BadRemoteExample},
                    TextsOver(RewriteLineSet, RewriteLen))

SpecRewrite == InitRewrite /\ [][Next]_vars

\* the dispatch and the parser on every small reference, for one file content
InitMain == InitProgramWith(RefSet, { << <<"a">> >> })

SpecMain == InitMain /\ [][Next]_vars

-----------------------------------------------------------------------------
(* Consistently indented documents *)

\* The indentation discipline of the source language: the first line is not
\* indented, the line after a block opener is indented deeper than it, and
\* any other line returns to the indentation of an enclosing open block.
\* Blank lines are ignored.  The result is [ok, stack, expect]: stack holds
\* the indentations of the open blocks, expect says a body must follow.
RECURSIVE IndentScan(_)
IndentScan(ls) ==
    IF ls = <<>> THEN [ok |-> TRUE, stack |-> <<0>>, expect |-> FALSE]
    ELSE
      LET p == IndentScan(Front(ls))
          l == Last(ls)
          n == LeadingSpaces(l)
      IN IF ~p.ok \/ n = Len(l) THEN p
         ELSE IF p.expect
         THEN IF n > Last(p.stack)
              THEN [ok |-> TRUE, stack |-> Append(p.stack, n),
                    expect |-> l[Len(l)] = ":"]
              ELSE [p EXCEPT !.ok = FALSE]
         ELSE IF \E k \in 1..Len(p.stack) : p.stack[k] = n
         THEN [ok |-> TRUE,
               stack |-> SubSeq(p.stack, 1,
                                CHOOSE k \in 1..Len(p.stack) : p.stack[k] = n),
               expect |-> l[Len(l)] = ":"]
         ELSE [p EXCEPT !.ok = FALSE]

ConsistentIndent(ls) == IndentScan(ls).ok

StructLineSet ==
    { Spaces(n) \o b : n \in 0..StructIndent, b \in Bodies \ {<<>>} }

InitStruct ==
    InitChunkWith({ t \in TextsOver(StructLineSet, StructLen) :
                      ConsistentIndent(t) })

SpecStruct == InitStruct /\ [][NextChunk]_vars

-----------------------------------------------------------------------------
(* Vocabulary of the claims about chunk_code *)

\* the texts of the segments, in order
ChunkTexts == [k \in 1..Len(chunks) |-> chunks[k].text]

\* a line that is empty or holds blanks only
BlankLine(l) == \A k \in 1..Len(l) : l[k] = " "

\* number of non-blank lines of a list of lines
RECURSIVE NonBlankCount(_)
NonBlankCount(ls) ==
    IF ls = <<>> THEN 0
    ELSE NonBlankCount(Tail(ls)) + (IF BlankLine(Head(ls)) THEN 0 ELSE 1)

\* The opener/closer rules applied to a list of lines: a non-blank line
\* ending in ":" opens a block and sets the reference indentation; any other
\* non-blank line with indentation <= the reference indentation closes an
\* open block and becomes the reference.
RECURSIVE BlockRule(_)
BlockRule(ls) ==
    IF ls = <<>> THEN [open |-> FALSE, ref |-> 0]
    ELSE
      LET p == BlockRule(Front(ls))
          l == Last(ls)
          n == LeadingSpaces(l)
      IN IF BlankLine(l) THEN p
         ELSE IF l[Len(l)] = ":" THEN [open |-> TRUE, ref |-> n]
         ELSE IF p.open /\ n <= p.ref THEN [open |-> FALSE, ref |-> n]
         ELSE p

\* index in lines of the first line of segment k (segments hold whole lines)
RECURSIVE SegmentStart(_)
SegmentStart(k) ==
    IF k = 1 THEN 1 ELSE SegmentStart(k - 1) + Len(chunks[k - 1].text)

\* the indices at which a segment other than the first begins
Boundaries == { SegmentStart(k) : k \in 2..Len(chunks) }

\* line b of ls lies in the body of a block opened before it: an opener o
\* before b is less indented than line b, and no non-blank line between them
\* has returned to the opener's indentation
InsideOpenBlock(ls, b) ==
    \E o \in 1..(b - 1) :
        /\ ~BlankLine(ls[o])
        /\ ls[o][Len(ls[o])] = ":"
        /\ LeadingSpaces(ls[o]) < LeadingSpaces(ls[b])
        /\ \A k \in (o + 1)..(b - 1) :
              BlankLine(ls[k]) \/ LeadingSpaces(ls[k]) > LeadingSpaces(ls[o])

\* the loop has just processed lines[idx]
LineStep == cpc = "loop" /\ idx' = idx + 1

-----------------------------------------------------------------------------
(* Claims about chunk_code *)

\* C1 (as claimed): joining the segment texts in order with one newline
\* between consecutive segments gives back the original text exactly.
C1_LosslessSplit ==
    cpc = "done" => JoinTexts(ChunkTexts) = code

\* What holds of the code in place of C1: the join gives back the text up to
\* one final newline, so no line of code.splitlines() is lost or moved.
LosslessUpToFinalNewline ==
    cpc = "done" =>
        code \in { JoinTexts(ChunkTexts), JoinTexts(ChunkTexts) \o EmptyText }

\* C3 (as claimed): in a consistently indented document split into more
\* than one segment, no segment boundary falls inside the body of a block
\* that is still structurally open.
C3_BoundarySafety ==
    (cpc = "done" /\ ConsistentIndent(lines) /\ Len(chunks) > 1)
        => \A b \in Boundaries : ~InsideOpenBlock(lines, b)

\* C4: a document of at most max_lines lines (the empty document included)
\* comes back as exactly one segment, equal to the whole document and
\* flagged complete.
C4_NoOpStability ==
    (cpc = "done" /\ Len(SplitLines(code)) <= max_lines)
        => chunks = << [text |-> code, complete |-> TRUE] >>

C4_Witness ==
    /\ cpc = "done"
    /\ Len(SplitLines(code)) = max_lines
    /\ BlockRule(SplitLines(code)).open
    /\ Len(chunks) = 1

\* C5 (as claimed): whatever the length of the document, the last segment
\* is flagged complete iff no block is open at the end of the input.
C5_FinalFlagAnyLength ==
    cpc = "done" => (Last(chunks).complete <=> ~BlockRule(lines).open)

\* C5 (amended): for a document of more than max_lines lines, the last
\* segment is flagged complete iff no block is open at the end of the input.
C5_FinalFlagWhenSplit ==
    (cpc = "done" /\ Len(lines) > max_lines)
        => (Last(chunks).complete <=> ~BlockRule(lines).open)

C5_Witness ==
    /\ cpc = "done"
    /\ Len(lines) > max_lines
    /\ Len(chunks) > 1
    /\ ~Last(chunks).complete

\* C10: a segment is started before a line only if the current segment holds
\* at least max_lines non-blank lines, no block is open and the line is
\* non-blank with indentation <= the reference indentation; a blank line
\* starts no segment and leaves flag, reference and counter alone; hence
\* every non-final segment holds at least max_lines non-blank lines and no
\* boundary lies after a block opener up to and including its closing line.
C10_CutPrecondition ==
    [][ /\ (LineStep /\ Len(chunks') > Len(chunks))
            => /\ NonBlankCount(current_chunk) >= max_lines
               /\ ~in_block
               /\ ~BlockRule(SubSeq(lines, 1, idx - 1)).open
               /\ ~BlankLine(lines[idx])
               /\ LeadingSpaces(lines[idx]) <= current_indent
               /\ current_indent = BlockRule(SubSeq(lines, 1, idx - 1)).ref
        /\ (LineStep /\ BlankLine(lines[idx]))
            => /\ chunks' = chunks
               /\ in_block' = in_block
               /\ current_indent' = current_indent
               /\ line_count' = line_count
        /\ (cpc = "loop" /\ cpc' = "done")
            => /\ \A k \in 1..(Len(chunks') - 1) :
                     NonBlankCount(chunks'[k].text) >= max_lines
               /\ \A k \in 2..Len(chunks') :
                     LET b == Len(JoinTexts([j \in 1..(k - 1)
                                               |-> chunks'[j].text])) + 1
                     IN ~BlockRule(SubSeq(lines, 1, b - 1)).open
      ]_vars

C10_Witness ==
    /\ cpc = "done"
    /\ Len(chunks) > 1
    /\ \E k \in 1..Len(chunks[1].text) :
          /\ ~BlankLine(chunks[1].text[k])
          /\ Last(chunks[1].text[k]) = ":"
    /\ \E k \in 1..Len(lines) : BlankLine(lines[k])

-----------------------------------------------------------------------------
(* Vocabulary of the claims about the workflows *)

\* get_code_changes has returned
RewriteDone == modified_code # NoText

\* the order of the steps of update_github_file
StepOrder ==
    <<"parse", "clone", "exists", "read", "rewrite", "write", "publish">>

\* an engine call that failed, in the words of the claims: a timeout or a
\* rate limit (the call raises), a malformed response (no choice, no
\* content) or an empty response (to a request that was not empty)
EngineFailure(c) ==
    \/ c.kind \in {"raise", "nocontent"}
    \/ (c.kind = "content" /\ c.resp = EmptyText /\ c.text # EmptyText)

\* the rule of the specification for references: the reference has a ':'
\* somewhere after its first '/'
ColonAfterFirstSlash(s) ==
    \E a \in 1..Len(s) :
        /\ s[a] = "/"
        /\ \A j \in 1..(a - 1) : s[j] # "/"
        /\ \E c \in (a + 1)..Len(s) : s[c] = ":"

ClaimedKind(s) ==
    IF StartsWith(s, UrlPrefix) THEN "url"
    ELSE IF ColonAfterFirstSlash(s) THEN "short"
    ELSE "local"

\* (owner, repo, branch, path) = (acme, widget, main, src/app.py)
ExampleFields(r) ==
    /\ r.ok
    /\ r.owner = <<"a", "c", "m", "e">>
    /\ r.repo = <<"w", "i", "d", "g", "e", "t">>
    /\ r.branch = <<"m", "a", "i", "n">>
    /\ r.path = <<"s", "r", "c", "/", "a", "p", "p", ".", "p", "y">>

-----------------------------------------------------------------------------
(* Claims about the workflows *)

\* C2 (as claimed): when the engine returns every text it was sent
\* unchanged, the merged output of get_code_changes equals the original
\* input exactly.
C2_IdentityRoundTrip ==
    (RewriteDone /\ \A k \in 1..Len(calls) : calls[k].resp = calls[k].text)
        => modified_code = original_code

\* C6: the k-th engine call is the call for segment k; when every call has
\* succeeded there are exactly as many calls as segments, each carrying its
\* segment (the single call of a one-segment document carries the whole
\* document: the segment, with the final newline if chunk_code dropped it),
\* and the merged output is the results joined in segment order.
C6_OneCallPerSegmentInOrder ==
    /\ \A k \in 1..Len(calls) : calls[k].seg = k
    /\ RewriteDone =>
          /\ Len(calls) = Len(chunk_list)
          /\ \A k \in 1..Len(calls) : calls[k].kind = "content"
          /\ Len(chunk_list) > 1 =>
                \A k \in 1..Len(calls) : calls[k].text = chunk_list[k].text
          /\ Len(chunk_list) = 1 =>
                /\ calls[1].text = original_code
                /\ calls[1].text \in { chunk_list[1].text,
                                       chunk_list[1].text \o EmptyText }
          /\ modified_code =
                JoinTexts([k \in 1..Len(calls) |-> Strip(calls[k].resp)])

C6_Witness ==
    /\ RewriteDone
    /\ Len(chunk_list) = 3
    /\ Strip(calls[1].resp) # Strip(calls[2].resp)
    /\ Strip(calls[2].resp) # Strip(calls[3].resp)

\* C7 (as claimed): once the engine call for a segment has failed (timeout,
\* rate limit, malformed or empty response), it is the last call, nothing
\* is written, the file keeps its content and the invocation has ended with
\* exit code 1.
C7_AllOrNothing ==
    \A k \in 1..Len(calls) :
        EngineFailure(calls[k])
            => /\ k = Len(calls)
               /\ ~RewriteDone
               /\ writes = 0
               /\ disk = original_code
               /\ ppc = "exit"
               /\ exit_code = 1

\* What holds of the code in place of C7: an engine call that raises is the
\* last call, nothing is written and the invocation ends with exit code 1.
AbortWhenCallRaises ==
    \A k \in 1..Len(calls) :
        calls[k].kind # "content"
            => /\ k = Len(calls)
               /\ ~RewriteDone
               /\ writes = 0
               /\ disk = original_code
               /\ ppc = "exit"
               /\ exit_code = 1

C9_Classification ==
    workflow # "none" =>
        /\ workflow = "local" <=> ClaimedKind(file_path) = "local"
        /\ file_path = LocalExample => workflow = "local"
        /\ file_path \in {ShortExample, UrlExample} =>
              /\ workflow = "github"
              /\ ExampleFields(ParseGithubPath(file_path))
              /\ ppc \notin {"main", "parse"} => ExampleFields(parsed)

=============================================================================
